---------------------------- MODULE Spec2Model ----------------------------
(***************************************************************************)
(* Model of src/app.py, the portfolio projection script.                   *)
(*                                                                         *)
(* The script is one straight-line run: read the sidebar inputs, compute   *)
(* the horizon in months (stop with an error if it is not positive),       *)
(* convert the annual rates to monthly ones, initialise the five series,   *)
(* iterate the month-by-month recurrence and print the three metrics.      *)
(*                                                                         *)
(* Numbers.  The script computes in Python floats.  Here a monetary value  *)
(* is an integer (R$) and a rate is a fixed-point integer with Escala      *)
(* units per 1.0; every product of a value by a rate is rounded down.      *)
(* A float power with a negative base and a fractional exponent is a       *)
(* Python complex number: such a value is modelled by the tag "complex".   *)
(* Ordering a complex number raises TypeError.                             *)
(***************************************************************************)
EXTENDS Integers, Sequences, FiniteSets

VARIABLES
    \* sidebar inputs (lines 29-42)
    patrimonio_inicial, data_inicio, data_fim,
    retorno_anual, inflacao_anual, imposto_anual, variancia_anual,
    retirada_mensal,
    \* derived scalars (lines 47-57)
    meses_totais, taxa_retorno_liq_mensal, taxa_inflacao_mensal,
    volatilidade_mensal,
    \* the series (lines 60-64)
    datas, saldo_sem_retirada, saldo_com_retirada, banda_superior,
    banda_inferior,
    \* loop state (lines 67-71)
    val_atual_sr, val_atual_cr, retirada_atual, i,
    \* the value retirada_atual took at each executed iteration (line 78)
    retiradas,
    \* the three st.metric values (lines 152-157), <<>> until printed
    metricas,
    \* position of the script and the error that ended it, if any
    pc, erro

entradas == <<patrimonio_inicial, data_inicio, data_fim, retorno_anual,
              inflacao_anual, imposto_anual, variancia_anual, retirada_mensal>>

series == <<datas, saldo_sem_retirada, saldo_com_retirada, banda_superior,
            banda_inferior>>

laco == <<val_atual_sr, val_atual_cr, retirada_atual, i, retiradas>>

taxas == <<taxa_retorno_liq_mensal, taxa_inflacao_mensal, volatilidade_mensal>>

vars == <<entradas, meses_totais, taxas, series, laco, metricas, pc, erro>>

-----------------------------------------------------------------------------
(* Bounds of the model and constants of the program *)

\* longest horizon, in months, of the runs explored
MaxMeses == 4

\* months in a year (lines 47, 55-57, 87)
MesesPorAno == 12

\* the sidebar's rates are percentages (lines 36-39)
CemPorCento == 100

\* fixed-point resolution: a tenth of a percentage point
Escala == 10 * CemPorCento

-----------------------------------------------------------------------------
(* Numbers *)

Real(x) == [kind |-> "real", v |-> x]
Complex == [kind |-> "complex", v |-> 0]
Unset == [kind |-> "unset", v |-> 0]

IsComplex(x) == x.kind = "complex"

Max(a, b) == IF a >= b THEN a ELSE b
Min(a, b) == IF a <= b THEN a ELSE b

\* x * r for a fixed-point rate r
Mul(x, r) == (x * r) \div Escala

\* the largest m in lo..hi with m^e <= n, by bisection (e is 2 or 3)
RECURSIVE RaizInt(_, _, _, _)
RaizInt(n, e, lo, hi) ==
    IF lo >= hi THEN lo
    ELSE LET mid == (lo + hi + 1) \div 2
             p == IF e = 2 THEN mid * mid ELSE mid * mid * mid
         IN IF p <= n THEN RaizInt(n, e, mid, hi)
            ELSE RaizInt(n, e, lo, mid - 1)

\* integer part of the square root of n
ISqrt(n) == RaizInt(n, 2, 0, 46340)

\* integer part of the cube root of n
ICbrt(n) == RaizInt(n, 3, 0, 1290)

\* fixed-point square root: np.sqrt (lines 57, 87)
Sqrt(x) == ISqrt(x * Escala)

\* fixed-point cube root
Cbrt(x) == ICbrt(x * Escala * Escala)

\* base ** (1/12) for a float base (lines 55-56): complex for a negative base
Raiz12(base) ==
    IF base < 0 THEN Complex ELSE Real(Cbrt(Sqrt(Sqrt(base))))

\* f ** n for a fixed-point f and a natural n (lines 78, 154)
RECURSIVE Pot(_, _)
Pot(f, n) == IF n = 0 THEN Escala ELSE Mul(Pot(f, n - 1), f)

\* st.number_input(...) / 100 (lines 36-39)
Percentual(x) == (x * Escala) \div CemPorCento

-----------------------------------------------------------------------------
(* Dates: datetime.date and dateutil's relativedelta(months=n) *)

Data(y, m, d) == [year |-> y, month |-> m, day |-> d]

Bissexto(y) == (y % 4 = 0 /\ y % 100 # 0) \/ y % 400 = 0

DiasNoMes(y, m) ==
    IF m = 2 THEN (IF Bissexto(y) THEN 29 ELSE 28)
    ELSE IF m \in {4, 6, 9, 11} THEN 30 ELSE 31

\* d + relativedelta(months=n): the month advances by n, the year carries,
\* and the day is cut down to the last day of the month reached (line 60)
MaisMeses(d, n) ==
    LET k == d.year * MesesPorAno + (d.month - 1) + n
        y == k \div MesesPorAno
        m == (k % MesesPorAno) + 1
    IN Data(y, m, Min(d.day, DiasNoMes(y, m)))

-----------------------------------------------------------------------------
(* The computations of the script, one operator per expression *)

\* line 47
MesesTotais(ini, fim) ==
    (fim.year - ini.year) * MesesPorAno + (fim.month - ini.month)

\* the check written with < instead of <=
HorizonteInvalido_Mut(m) == m < 0

\* line 49
HorizonteInvalido(m) == m <= 0

\* (1 + anual) ** (1/12) - 1 (lines 55-56)
TaxaMensal(anual) ==
    LET r == Raiz12(Escala + anual)
    IN IF IsComplex(r) THEN Complex ELSE Real(r.v - Escala)

\* line 55
TaxaRetornoLiqMensal(retorno, imposto) ==
    TaxaMensal(Mul(retorno, Escala - imposto))

\* line 56
TaxaInflacaoMensal(inflacao) == TaxaMensal(inflacao)

\* line 57 (computed, never read again)
VolatilidadeMensal(variancia) ==
    (variancia * Escala) \div Sqrt(MesesPorAno * Escala)

\* range(meses_totais) instead of range(meses_totais + 1)
Datas_Mut(ini, n) == [k \in 1..n |-> MaisMeses(ini, k - 1)]

\* line 60
Datas(ini, n) == [k \in 1..(n + 1) |-> MaisMeses(ini, k - 1)]

\* the balance multiplied by the rate instead of by 1 + rate
ProximoSR_Mut(val, taxa) ==
    IF IsComplex(val) \/ IsComplex(taxa) THEN Complex
    ELSE Real(Mul(val.v, taxa.v))

\* line 73
ProximoSR(val, taxa) ==
    IF IsComplex(val) \/ IsComplex(taxa) THEN Complex
    ELSE Real(Mul(val.v, Escala + taxa.v))

\* line 78
RetiradaCorrigida(retirada, taxa_inf, k) ==
    IF IsComplex(taxa_inf) THEN Complex
    ELSE Real(Mul(retirada, Pot(Escala + taxa_inf.v, k)))

\* the withdrawal added instead of subtracted
ProximoCR_Mut(val, taxa, retirada) ==
    IF IsComplex(val) \/ IsComplex(taxa) \/ IsComplex(retirada) THEN Complex
    ELSE Real(Mul(val.v, Escala + taxa.v) + retirada.v)

\* line 80
ProximoCR(val, taxa, retirada) ==
    IF IsComplex(val) \/ IsComplex(taxa) \/ IsComplex(retirada) THEN Complex
    ELSE Real(Mul(val.v, Escala + taxa.v) - retirada.v)

\* the floor left out
Piso_Mut(x) == x

\* line 82
Piso(x) == IF x < 0 THEN 0 ELSE x

\* line 87
Desvio(val, variancia, k) ==
    Mul(val, Mul(variancia, Sqrt((k * Escala) \div MesesPorAno)))

\* line 88
BandaSuperior(val, desvio) == val + desvio

\* line 89
BandaInferior(val, desvio) == Max(0, val - desvio)

\* line 154: sum over range(len(datas))
RECURSIVE SomaRetiradas(_, _, _)
SomaRetiradas(retirada, taxa_inf, n) ==
    IF n = 0 THEN 0
    ELSE SomaRetiradas(retirada, taxa_inf, n - 1)
         + Mul(retirada, Pot(Escala + taxa_inf, n - 1))

RetiradaAcumulada(retirada, taxa_inf, ds) ==
    SomaRetiradas(retirada, taxa_inf.v, Len(ds))

-----------------------------------------------------------------------------
(* Inputs explored *)

DatasIniciais == {Data(2023, 11, 30), Data(2023, 12, 15), Data(2024, 1, 31)}

IndiceMes(d) == d.year * MesesPorAno + d.month

DatasFinais(ini) ==
    {d \in {Data(y, m, 1) : y \in 2023..2025, m \in 1..MesesPorAno} :
        IndiceMes(d) - IndiceMes(ini) \in -1..MaxMeses}

Patrimonios == {-1000, 0, 1000}
Retornos == {-200, -100, 0, 12}
Inflacoes == {-200, -100, 0, 100}
Impostos == {0, 15}
Variancias == {-10, 0, 10, 400}
Retiradas == {-50, 0, 50, 600}

-----------------------------------------------------------------------------
(* The run *)

\* lines 27-42: the sidebar has been read
Init ==
    /\ patrimonio_inicial \in Patrimonios
    /\ data_inicio \in DatasIniciais
    /\ data_fim \in DatasFinais(data_inicio)
    /\ retorno_anual \in {Percentual(x) : x \in Retornos}
    /\ inflacao_anual \in {Percentual(x) : x \in Inflacoes}
    /\ imposto_anual \in {Percentual(x) : x \in Impostos}
    /\ variancia_anual \in {Percentual(x) : x \in Variancias}
    /\ retirada_mensal \in Retiradas
    /\ meses_totais = 0
    /\ taxa_retorno_liq_mensal = Unset
    /\ taxa_inflacao_mensal = Unset
    /\ volatilidade_mensal = 0
    /\ datas = <<>>
    /\ saldo_sem_retirada = <<>>
    /\ saldo_com_retirada = <<>>
    /\ banda_superior = <<>>
    /\ banda_inferior = <<>>
    /\ val_atual_sr = Unset
    /\ val_atual_cr = Unset
    /\ retirada_atual = Unset
    /\ i = 0
    /\ retiradas = <<>>
    /\ metricas = <<>>
    /\ pc = "horizonte"
    /\ erro = "none"

\* lines 47-51: the horizon; st.error and st.stop() when it is not positive
ValidarHorizonte ==
    /\ pc = "horizonte"
    /\ meses_totais' = MesesTotais(data_inicio, data_fim)
    /\ IF HorizonteInvalido(meses_totais')
       THEN pc' = "stopped" /\ erro' = "horizonte"
       ELSE pc' = "taxas" /\ erro' = erro
    /\ UNCHANGED <<entradas, taxas, series, laco, metricas>>

\* lines 55-57: annual rates to monthly rates
NormalizarTaxas ==
    /\ pc = "taxas"
    /\ taxa_retorno_liq_mensal' = TaxaRetornoLiqMensal(retorno_anual, imposto_anual)
    /\ taxa_inflacao_mensal' = TaxaInflacaoMensal(inflacao_anual)
    /\ volatilidade_mensal' = VolatilidadeMensal(variancia_anual)
    /\ pc' = "listas"
    /\ UNCHANGED <<entradas, meses_totais, series, laco, metricas, erro>>

\* lines 60-69: the series start with the initial wealth
IniciarSeries ==
    /\ pc = "listas"
    /\ datas' = Datas(data_inicio, meses_totais)
    /\ saldo_sem_retirada' = <<Real(patrimonio_inicial)>>
    /\ saldo_com_retirada' = <<patrimonio_inicial>>
    /\ banda_superior' = <<patrimonio_inicial>>
    /\ banda_inferior' = <<patrimonio_inicial>>
    /\ val_atual_sr' = Real(patrimonio_inicial)
    /\ val_atual_cr' = Real(patrimonio_inicial)
    /\ retirada_atual' = Real(retirada_mensal)
    /\ pc' = "laco"
    /\ UNCHANGED <<entradas, meses_totais, taxas, i, retiradas, metricas, erro>>

\* lines 71-89: one iteration of the loop.  With a complex rate the
\* comparison of line 82 raises TypeError after lines 73-80 have run.
PassoProjecao ==
    /\ pc = "laco"
    /\ i < meses_totais
    /\ LET k == i + 1
           sr == ProximoSR(val_atual_sr, taxa_retorno_liq_mensal)
           ret == RetiradaCorrigida(retirada_mensal, taxa_inflacao_mensal, k)
           cr == ProximoCR(val_atual_cr, taxa_retorno_liq_mensal, ret)
       IN /\ i' = k
          /\ val_atual_sr' = sr
          /\ saldo_sem_retirada' = Append(saldo_sem_retirada, sr)
          /\ retirada_atual' = ret
          /\ retiradas' = Append(retiradas, ret)
          /\ IF IsComplex(cr)
             THEN /\ val_atual_cr' = cr
                  /\ pc' = "failed"
                  /\ erro' = "TypeError"
                  /\ UNCHANGED <<saldo_com_retirada, banda_superior, banda_inferior>>
             ELSE LET val == Piso(cr.v)
                      desvio == Desvio(val, variancia_anual, k)
                  IN /\ val_atual_cr' = Real(val)
                     /\ saldo_com_retirada' = Append(saldo_com_retirada, val)
                     /\ banda_superior' =
                            Append(banda_superior, BandaSuperior(val, desvio))
                     /\ banda_inferior' =
                            Append(banda_inferior, BandaInferior(val, desvio))
                     /\ UNCHANGED <<pc, erro>>
    /\ UNCHANGED <<entradas, meses_totais, taxas, datas, metricas>>

\* lines 152-157, after the loop has run its last iteration: the metrics
\* (final balance, total withdrawn, monthly net rate as a percentage)
Resumo ==
    /\ pc = "laco"
    /\ i = meses_totais
    /\ metricas' =
           << saldo_com_retirada[Len(saldo_com_retirada)],
              RetiradaAcumulada(retirada_mensal, taxa_inflacao_mensal, datas),
              taxa_retorno_liq_mensal.v * CemPorCento >>
    /\ pc' = "done"
    /\ UNCHANGED <<entradas, meses_totais, taxas, series, laco, erro>>

Next ==
    \/ ValidarHorizonte
    \/ NormalizarTaxas
    \/ IniciarSeries
    \/ PassoProjecao
    \/ Resumo

Spec == Init /\ [][Next]_vars

-----------------------------------------------------------------------------
(* Vocabulary of the properties *)

\* the horizon as the calendar difference of the two input dates
Horizonte ==
    (data_fim.year - data_inicio.year) * MesesPorAno
        + (data_fim.month - data_inicio.month)

\* the bases of the two fractional powers of the rate conversion
BaseRetorno == Escala + Mul(retorno_anual, Escala - imposto_anual)
BaseInflacao == Escala + inflacao_anual

\* nothing has been produced: no series entry, no metric, no loop step
NadaProduzido ==
    /\ datas = <<>>
    /\ saldo_sem_retirada = <<>>
    /\ saldo_com_retirada = <<>>
    /\ banda_superior = <<>>
    /\ banda_inferior = <<>>
    /\ retiradas = <<>>
    /\ metricas = <<>>
    /\ i = 0

\* the months for which the with-withdrawal series has an entry (1-based)
Meses == DOMAIN saldo_com_retirada

RECURSIVE SomaAplicada(_)
SomaAplicada(n) == IF n = 0 THEN 0 ELSE SomaAplicada(n - 1) + retiradas[n].v

-----------------------------------------------------------------------------
(* C1 *)

\* C1: whenever the horizon computed from the two dates is <= 0, the run,
\* once past the horizon check, is stopped with the horizon error, the rate
\* conversion has not run, and no series entry or metric exists.
C1_InvalidHorizon ==
    (pc # "horizonte" /\ Horizonte <= 0) =>
        /\ pc = "stopped"
        /\ erro = "horizonte"
        /\ taxa_retorno_liq_mensal = Unset
        /\ taxa_inflacao_mensal = Unset
        /\ NadaProduzido

\* a run whose two dates fall in the same month has been stopped
C1_Witness == pc = "stopped" /\ Horizonte = 0

-----------------------------------------------------------------------------
(* C2 *)

\* C2: whenever the base of a monthly-rate conversion is non-positive, the
\* run does not get past the rate conversion: no monthly rate is complex, no
\* projection step executes and no value is appended to any series.
C2_RateDomainError ==
    (BaseRetorno <= 0 \/ BaseInflacao <= 0) =>
        /\ pc \in {"horizonte", "taxas", "stopped"}
        /\ ~IsComplex(taxa_retorno_liq_mensal)
        /\ ~IsComplex(taxa_inflacao_mensal)
        /\ NadaProduzido

-----------------------------------------------------------------------------
(* C3 *)

\* C3: in a completed run every series has meses_totais + 1 entries, entry 0
\* of the four balance series is the initial wealth, and date entry k is the
\* start date moved k calendar months on (same day of the month, or the last
\* day of the month reached when that month is shorter).
C3_SeriesShape ==
    pc = "done" =>
        /\ meses_totais = Horizonte /\ meses_totais > 0
        /\ Len(datas) = meses_totais + 1
        /\ Len(saldo_sem_retirada) = meses_totais + 1
        /\ Len(saldo_com_retirada) = meses_totais + 1
        /\ Len(banda_superior) = meses_totais + 1
        /\ Len(banda_inferior) = meses_totais + 1
        /\ saldo_sem_retirada[1] = Real(patrimonio_inicial)
        /\ saldo_com_retirada[1] = patrimonio_inicial
        /\ banda_superior[1] = patrimonio_inicial
        /\ banda_inferior[1] = patrimonio_inicial
        /\ \A k \in DOMAIN datas :
              /\ IndiceMes(datas[k]) = IndiceMes(data_inicio) + (k - 1)
              /\ datas[k].month \in 1..MesesPorAno
              /\ datas[k].day \in 1..DiasNoMes(datas[k].year, datas[k].month)
              /\ \/ datas[k].day = data_inicio.day
                 \/ /\ datas[k].day = DiasNoMes(datas[k].year, datas[k].month)
                    /\ datas[k].day < data_inicio.day

\* a completed run of the longest horizon whose dates cross a year end and
\* reach a month shorter than the start date's day
C3_Witness ==
    /\ pc = "done"
    /\ meses_totais >= 3
    /\ \E k \in DOMAIN datas : datas[k].year # data_inicio.year
    /\ \E k \in DOMAIN datas : datas[k].day # data_inicio.day

-----------------------------------------------------------------------------
(* C4 *)

\* C4: at every month, whatever the sign of the volatility,
\* band_lower <= balance_with_withdrawal <= band_upper.
C4_BandOrder ==
    \A k \in Meses :
        /\ banda_inferior[k] <= saldo_com_retirada[k]
        /\ saldo_com_retirada[k] <= banda_superior[k]

-----------------------------------------------------------------------------
(* C5 *)

\* C5: with a non-negative initial wealth, the with-withdrawal balance and
\* the lower band are non-negative at every month.
C5_NonNegative ==
    patrimonio_inicial >= 0 =>
        \A k \in Meses :
            saldo_com_retirada[k] >= 0 /\ banda_inferior[k] >= 0

\* a completed run in which the floor of line 82 has fired (the balance fell
\* from a positive value to 0) and the floor of line 89 has fired too (the
\* deviation exceeded a positive balance)
C5_Witness ==
    /\ pc = "done"
    /\ patrimonio_inicial > 0
    /\ \E k \in Meses : k > 1 /\ saldo_com_retirada[k] = 0
                        /\ saldo_com_retirada[k - 1] > 0
    /\ \E k \in Meses : saldo_com_retirada[k] > 0 /\ banda_inferior[k] = 0
                        /\ Desvio(saldo_com_retirada[k], variancia_anual, k - 1)
                              > saldo_com_retirada[k]

-----------------------------------------------------------------------------
(* C6 *)

\* C6: the total withdrawn shown in the summary is the sum of the
\* withdrawals the recurrence subtracted at steps 1..meses_totais.
C6_TotalWithdrawn ==
    pc = "done" => metricas[2] = SomaAplicada(Len(retiradas))

-----------------------------------------------------------------------------
(* C7 *)

\* C7: the withdrawal applied at step k follows the indexing flag: the
\* constant monthly amount when the flag is false, the amount escalated by
\* (1 + inflation rate)^k when it is true.
C7_IndexingFlag ==
    \A index_withdrawal_to_inflation \in BOOLEAN :
        \A k \in DOMAIN retiradas :
            ~IsComplex(retiradas[k]) =>
                retiradas[k].v =
                    IF index_withdrawal_to_inflation
                    THEN Mul(retirada_mensal,
                             Pot(Escala + taxa_inflacao_mensal.v, k))
                    ELSE retirada_mensal

-----------------------------------------------------------------------------
(* C8 *)

\* C8: with a zero monthly withdrawal and a non-negative initial wealth the
\* with-withdrawal balance equals the no-withdrawal balance at every month.
C8_ZeroWithdrawal ==
    (retirada_mensal = 0 /\ patrimonio_inicial >= 0) =>
        \A k \in Meses : saldo_sem_retirada[k] = Real(saldo_com_retirada[k])

\* a completed zero-withdrawal run of several months whose balance moved
C8_Witness ==
    /\ pc = "done"
    /\ retirada_mensal = 0
    /\ patrimonio_inicial > 0
    /\ meses_totais >= 2
    /\ saldo_com_retirada[Len(saldo_com_retirada)] > patrimonio_inicial

-----------------------------------------------------------------------------
(* C9 *)

\* C9: in a run with a positive monthly withdrawal, once the with-withdrawal
\* balance is 0 at some month it is 0, with both bands 0, at every later
\* month, and the run is not ended by an error.
C9_DepletionAbsorbing ==
    retirada_mensal > 0 =>
        \A k \in Meses :
            saldo_com_retirada[k] = 0 =>
                /\ erro = "none"
                /\ \A j \in Meses :
                      j > k => /\ saldo_com_retirada[j] = 0
                               /\ banda_inferior[j] = 0
                               /\ banda_superior[j] = 0

-----------------------------------------------------------------------------
(* C10 *)

\* C10: with a non-negative initial wealth, a positive monthly growth factor
\* and a non-negative monthly withdrawal, the with-withdrawal balance never
\* exceeds the no-withdrawal balance.
C10_Dominance ==
    ( /\ patrimonio_inicial >= 0
      /\ retirada_mensal >= 0
      /\ taxa_retorno_liq_mensal.kind = "real"
      /\ Escala + taxa_retorno_liq_mensal.v > 0 ) =>
        \A k \in Meses :
            /\ saldo_sem_retirada[k].kind = "real"
            /\ saldo_com_retirada[k] <= saldo_sem_retirada[k].v

\* a completed run in which the floor has fired while the no-withdrawal
\* balance is still positive
C10_Witness ==
    /\ pc = "done"
    /\ patrimonio_inicial > 0
    /\ retirada_mensal > 0
    /\ Escala + taxa_retorno_liq_mensal.v > 0
    /\ saldo_com_retirada[Len(saldo_com_retirada)] = 0
    /\ saldo_com_retirada[2] > 0
    /\ saldo_sem_retirada[Len(saldo_sem_retirada)].v > 0

=============================================================================
